---- MODULE Spec2Model ----
(***************************************************************************)
(* Model of app.py: the Streamlit resume analyser.  One script run         *)
(* resolves the Gemini API key, takes an uploaded ZIP, runs process_zip    *)
(* (scratch directory, unpack, walk, per-file text extraction and LLM      *)
(* call) and hands the records to write_csv.                               *)
(*                                                                         *)
(* Strings whose characters matter (file names, extracted text) are        *)
(* sequences of one-character strings.                                     *)
(***************************************************************************)
EXTENDS Integers, Sequences, FiniteSets, TLC

VARIABLES
    pc,              \* position of the script / of process_zip
    user_api_key,    \* sidebar text input (app.py:45)
    gemini,          \* environment variable 'gemini' as os.getenv sees it
    GOOGLE_API_KEY,  \* os.environ["GOOGLE_API_KEY"]
    uploaded_zip,    \* the uploaded file (app.py:187)
    temp_dir,        \* scratch directory of the running process_zip
    tree,            \* os.walk enumeration of temp_dir, flattened
    idx,             \* index in tree of the file the loop is at
    text,            \* local 'text' of the loop body
    extracted_data,  \* local list of process_zip
    warnings,        \* st.warning calls made so far
    results,         \* value process_zip returned to its caller
    exc,             \* exception propagating out of the script
    csv,             \* rows of the file write_csv produced
    ui,              \* final status element the page shows
    reads,           \* history: files handed to read_pdf / read_docx
    calls,           \* history: extract_resume_data invocations
    replies          \* history: what each invocation got from the endpoint

vars == <<pc, user_api_key, gemini, GOOGLE_API_KEY, uploaded_zip, temp_dir,
          tree, idx, text, extracted_data, warnings, results, exc, csv, ui,
          reads, calls, replies>>

(***************************************************************************)
(* Bounds                                                                  *)
(***************************************************************************)
\* largest number of members of an uploaded archive
MaxFiles == 3

(***************************************************************************)
(* Strings                                                                 *)
(***************************************************************************)
\* str.lower() on one character
LowerChar(c) ==
    CASE c = "P" -> "p" [] c = "D" -> "d" [] c = "F" -> "f" [] c = "O" -> "o"
      [] c = "C" -> "c" [] c = "X" -> "x" [] c = "Z" -> "z" [] c = "I" -> "i"
      [] OTHER -> c

\* str.lower()
Lower(s) == [i \in 1..Len(s) |-> LowerChar(s[i])]

\* str.endswith(suffix)
EndsWith(s, suffix) ==
    /\ Len(s) >= Len(suffix)
    /\ SubSeq(s, Len(s) - Len(suffix) + 1, Len(s)) = suffix

Whitespace == {" ", "\n", "\t"}

RECURSIVE LStrip(_)
LStrip(s) == IF s # <<>> /\ Head(s) \in Whitespace THEN LStrip(Tail(s)) ELSE s

RECURSIVE RStrip(_)
RStrip(s) ==
    IF s # <<>> /\ s[Len(s)] \in Whitespace
    THEN RStrip(SubSeq(s, 1, Len(s) - 1)) ELSE s

\* Strip without the stripping: the test 'if text:'
NoStrip(s) == s

\* str.strip()
Strip(s) == RStrip(LStrip(s))

\* "".join(parts)
RECURSIVE Join(_, _)
Join(sep, parts) ==
    IF parts = <<>> THEN <<>>
    ELSE IF Len(parts) = 1 THEN parts[1]
    ELSE parts[1] \o sep \o Join(sep, Tail(parts))

(***************************************************************************)
(* Structured output schema and parser                                     *)
(***************************************************************************)
\* list(ResumeSchema.model_fields.keys())
fieldnames ==
    <<"name", "email", "phone", "skills", "experience_summary", "education",
      "linkedin", "github">>

ResumeSchema == {fieldnames[i] : i \in 1..Len(fieldnames)}

\* what the model endpoint may answer for one resume: a compliant object,
\* a compliant object with an extra key, an object with a key missing
RawA ==
    [name |-> "Ann", email |-> "ann@x.io", phone |-> "111", skills |-> "py",
     experience_summary |-> "dev", education |-> "BSc", linkedin |-> "",
     github |-> "gh/ann"]

RawB ==
    [name |-> "Bob", email |-> "bob@x.io", phone |-> "222", skills |-> "go",
     experience_summary |-> "ops", education |-> "MSc", linkedin |-> "in/bob",
     github |-> "", notes |-> "n/a"]

RawPartial ==
    [name |-> "Cy", email |-> "cy@x.io", phone |-> "333", skills |-> "js",
     experience_summary |-> "web", education |-> "BA", linkedin |-> "in/cy"]

\* replies of the chat-completion endpoint to one request
Replies ==
    {[net |-> "ok", raw |-> RawA], [net |-> "ok", raw |-> RawB],
     [net |-> "ok", raw |-> RawPartial], [net |-> "down", raw |-> RawA]}

Ok(v) == [raised |-> FALSE, err |-> "", value |-> v]
Raise(e) == [raised |-> TRUE, err |-> e, value |-> <<>>]

\* parser handing back the parsed object as the endpoint sent it
parserKeepsRaw(raw) ==
    IF ResumeSchema \subseteq DOMAIN raw
    THEN Ok(raw)
    ELSE Raise("OutputParserException")

\* parser: PydanticOutputParser(ResumeSchema) followed by result.dict()
parser(raw) ==
    IF ResumeSchema \subseteq DOMAIN raw
    THEN Ok([k \in ResumeSchema |-> raw[k]])
    ELSE Raise("OutputParserException")

\* extract_resume_data: get_llm(), prompt | llm | parser, result.dict()
extract_resume_data(key, reply) ==
    IF key # "k_good" THEN Raise("AuthError")
    ELSE IF reply.net # "ok" THEN Raise("NetworkError")
    ELSE parser(reply.raw)

(***************************************************************************)
(* Files and file readers                                                  *)
(***************************************************************************)
Page(t) == [none |-> FALSE, t |-> t]
NoText == [none |-> TRUE, t |-> <<>>]

\* files an archive may contain: directory, name, on-disk format, contents
Catalogue ==
    {[root |-> "tmp", file |-> <<"a", ".", "p", "d", "f">>, fmt |-> "pdf",
      parts |-> <<Page(<<"x">>)>>],
     [root |-> "tmp", file |-> <<"b", ".", "P", "D", "F">>, fmt |-> "pdf",
      parts |-> <<NoText, Page(<<" ">>)>>],
     [root |-> "sub", file |-> <<"c", ".", "d", "o", "c", "x">>, fmt |-> "docx",
      parts |-> <<Page(<<"x">>), Page(<<>>)>>],
     [root |-> "tmp", file |-> <<"d", ".", "D", "o", "c", "X">>, fmt |-> "docx",
      parts |-> <<Page(<<" ">>), Page(<<>>)>>],
     [root |-> "tmp", file |-> <<"e", ".", "p", "d", "f">>, fmt |-> "corrupt",
      parts |-> <<>>],
     [root |-> "sub", file |-> <<"g", ".", "d", "o", "c", "x">>, fmt |-> "corrupt",
      parts |-> <<>>],
     [root |-> "tmp", file |-> <<"f", ".", "t", "x", "t">>, fmt |-> "other",
      parts |-> <<>>],
     [root |-> "tmp", file |-> <<"p", "d", "f">>, fmt |-> "pdf",
      parts |-> <<Page(<<"x">>)>>],
     [root |-> "sub", file |-> <<"h", ".", "p", "d", "f">>, fmt |-> "pdf",
      parts |-> <<Page(<<" ", "x", "\n">>)>>]}

\* the uploaded archive as process_zip stores it: temp_dir/zip_file.name
ZipEntry(name) == [root |-> "tmp", file |-> name, fmt |-> "zip", parts |-> <<>>]

\* page.extract_text() or ""
OrEmpty(p) == IF p.none \/ p.t = <<>> THEN <<>> ELSE p.t

\* read_pdf: PdfReader(path), "".join(page.extract_text() or "" ...)
read_pdf(f) ==
    IF f.fmt # "pdf" THEN Raise("PdfReadError")
    ELSE Ok(Join(<<>>, [i \in 1..Len(f.parts) |-> OrEmpty(f.parts[i])]))

\* read_docx: Document(path), "\n".join(p.text ...)
read_docx(f) ==
    IF f.fmt # "docx" THEN Raise("PackageNotFoundError")
    ELSE Ok(Join(<<"\n">>, [i \in 1..Len(f.parts) |-> f.parts[i].t]))

\* Classify with the dots of the suffixes forgotten
ClassifyNoDot(file) ==
    IF EndsWith(Lower(file), <<"p", "d", "f">>) THEN "pdf"
    ELSE IF EndsWith(Lower(file), <<"d", "o", "c", "x">>) THEN "docx"
    ELSE "unsupported"

\* the extension test of the walk loop (app.py:155-160)
Classify(file) ==
    IF EndsWith(Lower(file), <<".", "p", "d", "f">>) THEN "pdf"
    ELSE IF EndsWith(Lower(file), <<".", "d", "o", "c", "x">>) THEN "docx"
    ELSE "unsupported"

\* the reader the loop picks for a supported file
ReadText(f) == IF Classify(f.file) = "pdf" THEN read_pdf(f) ELSE read_docx(f)

\* Warning that shows the error only
WarningNoFile(file, e) == [file |-> <<>>, err |-> e]

\* st.warning(f"Failed to parse {file}: {e}")
Warning(file, e) == [file |-> file, err |-> e]

(***************************************************************************)
(* CSV writer                                                              *)
(***************************************************************************)
\* DictWriter row of one dict: the fieldnames' values, "" for a missing key
Row(d) == [j \in 1..Len(fieldnames) |->
              IF fieldnames[j] \in DOMAIN d THEN d[fieldnames[j]] ELSE ""]

\* write_csv without writeheader()
write_csv_no_header(data) == [i \in 1..Len(data) |-> Row(data[i])]

\* write_csv: writeheader() then writerows(data)
write_csv(data) == <<fieldnames>> \o [i \in 1..Len(data) |-> Row(data[i])]

NoCsv == <<>>

(***************************************************************************)
(* Uploads                                                                 *)
(***************************************************************************)
\* st.file_uploader(type=["zip"]) only lets *.zip names through
ZipNames == {<<"r", ".", "z", "i", "p">>}

NoUpload == [name |-> <<>>, valid |-> FALSE, members |-> {}]

\* an upload: its name, whether its bytes are a ZIP archive, its members
Uploads ==
    {[name |-> n, valid |-> TRUE, members |-> m] :
        n \in ZipNames,
        m \in {x \in SUBSET Catalogue : Cardinality(x) <= MaxFiles}}
    \cup {[name |-> n, valid |-> FALSE, members |-> {}] : n \in ZipNames}

\* os.walk(temp_dir) flattened to (root, file) pairs: top-down, so the files
\* of temp_dir itself come before those of its subdirectories; the order
\* inside one directory is the file system's
WalkOrders(S) ==
    {w \in [1..Cardinality(S) -> S] :
        /\ \A i, j \in DOMAIN w : i # j => w[i] # w[j]
        /\ \A i, j \in DOMAIN w :
              i < j => ~(w[i].root = "sub" /\ w[j].root = "tmp")}

\* os.path.join(root, file)
Path(f) == <<f.root, f.file>>

NoExc == [type |-> "none", at |-> "none"]

\* ExitTempDir as a removal placed after the block: skipped when raising
ExitTempDirOnReturnOnly(d, raising) == IF raising THEN d ELSE "deleted"

\* leaving the 'with tempfile.TemporaryDirectory()' block, by return
\* (raising = FALSE) or by an exception passing through (raising = TRUE)
ExitTempDir(d, raising) == "deleted"

(***************************************************************************)
(* Initial state: the script is about to run                               *)
(***************************************************************************)
Init ==
    /\ pc = "start"
    /\ user_api_key = ""
    /\ gemini = "unset"
    /\ GOOGLE_API_KEY = "unset"
    /\ uploaded_zip = NoUpload
    /\ temp_dir = "none"
    /\ tree = <<>>
    /\ idx = 0
    /\ text = <<>>
    /\ extracted_data = <<>>
    /\ warnings = <<>>
    /\ results = <<>>
    /\ exc = NoExc
    /\ csv = NoCsv
    /\ ui = "none"
    /\ reads = <<>>
    /\ calls = <<>>
    /\ replies = <<>>

(***************************************************************************)
(* Script top level                                                        *)
(***************************************************************************)
\* the value os.getenv("gemini") yields
Getenv(v) == IF v = "unset" THEN "None" ELSE v

\* app.py:26-71.  The sidebar input and the environment are read, then
\* os.environ["GOOGLE_API_KEY"] is assigned; assigning None raises TypeError
Startup ==
    /\ pc = "start"
    /\ \E k \in {"", "k_good"}, g \in {"unset", "k_bad"} :
          /\ user_api_key' = k
          /\ gemini' = g
          /\ IF k # ""
             THEN /\ GOOGLE_API_KEY' = k
                  /\ pc' = "ready"
                  /\ exc' = exc
             ELSE IF Getenv(g) = "None"
             THEN /\ GOOGLE_API_KEY' = GOOGLE_API_KEY
                  /\ pc' = "raised"
                  /\ exc' = [type |-> "TypeError", at |-> "startup"]
             ELSE /\ GOOGLE_API_KEY' = Getenv(g)
                  /\ pc' = "ready"
                  /\ exc' = exc
    /\ UNCHANGED <<uploaded_zip, temp_dir, tree, idx, text, extracted_data,
                   warnings, results, csv, ui, reads, calls, replies>>

\* app.py:187-193: a file is uploaded
Upload ==
    /\ pc = "ready"
    /\ \E z \in Uploads : uploaded_zip' = z
    /\ pc' = "uploaded"
    /\ UNCHANGED <<user_api_key, gemini, GOOGLE_API_KEY, temp_dir, tree, idx,
                   text, extracted_data, warnings, results, exc, csv, ui,
                   reads, calls, replies>>

\* app.py:195-197: the button is pressed and process_zip is called
Click ==
    /\ pc = "uploaded"
    /\ pc' = "call"
    /\ UNCHANGED <<user_api_key, gemini, GOOGLE_API_KEY, uploaded_zip,
                   temp_dir, tree, idx, text, extracted_data, warnings,
                   results, exc, csv, ui, reads, calls, replies>>

(***************************************************************************)
(* process_zip                                                             *)
(***************************************************************************)
\* the file the loop is at
Cur == tree[idx]

\* an exception leaves process_zip through the with block (app.py:143)
Propagate(type, at) ==
    /\ exc' = [type |-> type, at |-> at]
    /\ temp_dir' = ExitTempDir(temp_dir, TRUE)
    /\ pc' = "raised"

\* app.py:141-143: extracted_data = [], the scratch directory is created
EnterProcessZip ==
    /\ pc = "call"
    /\ extracted_data' = <<>>
    /\ temp_dir' = "exists"
    /\ pc' = "materialize"
    /\ UNCHANGED <<user_api_key, gemini, GOOGLE_API_KEY, uploaded_zip, tree,
                   idx, text, warnings, results, exc, csv, ui, reads, calls,
                   replies>>

\* app.py:144-146: the upload is written to temp_dir/zip_file.name
WriteArchive ==
    /\ pc = "materialize"
    /\ tree' = <<ZipEntry(uploaded_zip.name)>>
    /\ pc' = "unpack"
    /\ UNCHANGED <<user_api_key, gemini, GOOGLE_API_KEY, uploaded_zip,
                   temp_dir, idx, text, extracted_data, warnings, results,
                   exc, csv, ui, reads, calls, replies>>

\* app.py:145-146 when open() or write() fails (disk full, bad name)
WriteArchiveFails ==
    /\ pc = "materialize"
    /\ Propagate("OSError", "write")
    /\ UNCHANGED <<user_api_key, gemini, GOOGLE_API_KEY, uploaded_zip, tree,
                   idx, text, extracted_data, warnings, results, csv, ui,
                   reads, calls, replies>>

\* app.py:148-151: ZipFile(zip_path), extractall(temp_dir), os.walk starts
Unpack ==
    /\ pc = "unpack"
    /\ uploaded_zip.valid
    /\ \E w \in WalkOrders(uploaded_zip.members
                             \cup {ZipEntry(uploaded_zip.name)}) : tree' = w
    /\ idx' = 1
    /\ pc' = "walk"
    /\ UNCHANGED <<user_api_key, gemini, GOOGLE_API_KEY, uploaded_zip,
                   temp_dir, text, extracted_data, warnings, results, exc,
                   csv, ui, reads, calls, replies>>

\* UnpackFails with the error swallowed: the walk runs over what is there
UnpackFailsIgnored ==
    /\ pc = "unpack"
    /\ idx' = 1
    /\ pc' = "walk"
    /\ UNCHANGED <<user_api_key, gemini, GOOGLE_API_KEY, uploaded_zip,
                   temp_dir, tree, text, extracted_data, warnings, results,
                   exc, csv, ui, reads, calls, replies>>

\* app.py:148-149 when the bytes are not a ZIP (BadZipFile) or extractall
\* fails part-way (OSError)
UnpackFails ==
    /\ pc = "unpack"
    /\ IF uploaded_zip.valid
       THEN Propagate("OSError", "unpack")
       ELSE Propagate("BadZipFile", "unpack")
    /\ UNCHANGED <<user_api_key, gemini, GOOGLE_API_KEY, uploaded_zip, tree,
                   idx, text, extracted_data, warnings, results, csv, ui,
                   reads, calls, replies>>

\* app.py:155-160: neither .pdf nor .docx, continue
SkipUnsupported ==
    /\ pc = "walk"
    /\ idx <= Len(tree)
    /\ Classify(Cur.file) = "unsupported"
    /\ idx' = idx + 1
    /\ UNCHANGED <<pc, user_api_key, gemini, GOOGLE_API_KEY, uploaded_zip,
                   temp_dir, tree, text, extracted_data, warnings, results,
                   exc, csv, ui, reads, calls, replies>>

\* app.py:155-158 when read_pdf / read_docx raises: nothing in process_zip
\* catches it
ReadRaises ==
    /\ pc = "walk"
    /\ idx <= Len(tree)
    /\ Classify(Cur.file) # "unsupported"
    /\ ReadText(Cur).raised
    /\ reads' = Append(reads, [path |-> Path(Cur), kind |-> Classify(Cur.file)])
    /\ Propagate(ReadText(Cur).err, "read")
    /\ UNCHANGED <<user_api_key, gemini, GOOGLE_API_KEY, uploaded_zip, tree,
                   idx, text, extracted_data, warnings, results, csv, ui,
                   calls, replies>>

\* app.py:155-162: text read, text.strip() is empty, next file
SkipBlank ==
    /\ pc = "walk"
    /\ idx <= Len(tree)
    /\ Classify(Cur.file) # "unsupported"
    /\ ~ReadText(Cur).raised
    /\ Strip(ReadText(Cur).value) = <<>>
    /\ reads' = Append(reads, [path |-> Path(Cur), kind |-> Classify(Cur.file)])
    /\ text' = ReadText(Cur).value
    /\ idx' = idx + 1
    /\ UNCHANGED <<pc, user_api_key, gemini, GOOGLE_API_KEY, uploaded_zip,
                   temp_dir, tree, extracted_data, warnings, results, exc,
                   csv, ui, calls, replies>>

\* app.py:155-164: text read and non-blank, extract_resume_data(text) is
\* called and blocks on the endpoint
InvokeLLM ==
    /\ pc = "walk"
    /\ idx <= Len(tree)
    /\ Classify(Cur.file) # "unsupported"
    /\ ~ReadText(Cur).raised
    /\ Strip(ReadText(Cur).value) # <<>>
    /\ reads' = Append(reads, [path |-> Path(Cur), kind |-> Classify(Cur.file)])
    /\ text' = ReadText(Cur).value
    /\ calls' = Append(calls, [path |-> Path(Cur), resume_text |-> ReadText(Cur).value])
    /\ pc' = "llm"
    /\ UNCHANGED <<user_api_key, gemini, GOOGLE_API_KEY, uploaded_zip,
                   temp_dir, tree, idx, extracted_data, warnings, results,
                   exc, csv, ui, replies>>

\* app.py:164: the call returned a dict, which is appended
LLMReturns ==
    /\ pc = "llm"
    /\ \E r \in Replies :
          /\ ~extract_resume_data(GOOGLE_API_KEY, r).raised
          /\ replies' = Append(replies, r)
          /\ extracted_data' =
                Append(extracted_data, extract_resume_data(GOOGLE_API_KEY, r).value)
    /\ idx' = idx + 1
    /\ pc' = "walk"
    /\ UNCHANGED <<user_api_key, gemini, GOOGLE_API_KEY, uploaded_zip,
                   temp_dir, tree, text, warnings, results, exc, csv, ui,
                   reads, calls>>

\* LLMRaises with one retry of the failed call before the warning
LLMRaisesRetry ==
    /\ pc = "llm"
    /\ \E r \in Replies :
          /\ extract_resume_data(GOOGLE_API_KEY, r).raised
          /\ replies' = Append(replies, r)
          /\ IF Cardinality({c \in DOMAIN calls : calls[c].path = Path(Cur)}) < 2
             THEN /\ calls' = Append(calls, calls[Len(calls)])
                  /\ UNCHANGED <<warnings, idx, pc>>
             ELSE /\ warnings' =
                        Append(warnings,
                               Warning(Cur.file,
                                       extract_resume_data(GOOGLE_API_KEY, r).err))
                  /\ idx' = idx + 1
                  /\ pc' = "walk"
                  /\ UNCHANGED calls
    /\ UNCHANGED <<user_api_key, gemini, GOOGLE_API_KEY, uploaded_zip,
                   temp_dir, tree, text, extracted_data, results, exc, csv,
                   ui, reads>>

\* app.py:165-166: the call raised, st.warning names the file
LLMRaises ==
    /\ pc = "llm"
    /\ \E r \in Replies :
          /\ extract_resume_data(GOOGLE_API_KEY, r).raised
          /\ replies' = Append(replies, r)
          /\ warnings' =
                Append(warnings,
                       Warning(Cur.file, extract_resume_data(GOOGLE_API_KEY, r).err))
    /\ idx' = idx + 1
    /\ pc' = "walk"
    /\ UNCHANGED <<user_api_key, gemini, GOOGLE_API_KEY, uploaded_zip,
                   temp_dir, tree, text, extracted_data, results, exc, csv,
                   ui, reads, calls>>

\* app.py:151,168: the walk is exhausted, the with block is left, return
ReturnData ==
    /\ pc = "walk"
    /\ idx > Len(tree)
    /\ temp_dir' = ExitTempDir(temp_dir, FALSE)
    /\ results' = extracted_data
    /\ pc' = "returned"
    /\ UNCHANGED <<user_api_key, gemini, GOOGLE_API_KEY, uploaded_zip, tree,
                   idx, text, extracted_data, warnings, exc, csv, ui, reads,
                   calls, replies>>

(***************************************************************************)
(* After process_zip                                                       *)
(***************************************************************************)
\* app.py:199-216: results non-empty: write_csv, success, download, preview;
\* otherwise the "No valid resumes found" error
ShowResults ==
    /\ pc = "returned"
    /\ IF results # <<>>
       THEN /\ csv' = write_csv(results)
            /\ ui' = "success"
       ELSE /\ csv' = csv
            /\ ui' = "error"
    /\ pc' = "done"
    /\ UNCHANGED <<user_api_key, gemini, GOOGLE_API_KEY, uploaded_zip,
                   temp_dir, tree, idx, text, extracted_data, warnings,
                   results, exc, reads, calls, replies>>

Next ==
    \/ Startup \/ Upload \/ Click
    \/ EnterProcessZip \/ WriteArchive \/ WriteArchiveFails
    \/ Unpack \/ UnpackFails
    \/ SkipUnsupported \/ ReadRaises \/ SkipBlank \/ InvokeLLM
    \/ LLMReturns \/ LLMRaises \/ ReturnData
    \/ ShowResults

Spec == Init /\ [][Next]_vars

(***************************************************************************)
(* process_zip and write_csv called directly, as a test harness does:      *)
(* any upload, any key, then write_csv on whatever process_zip returned    *)
(***************************************************************************)
InitFn ==
    /\ pc = "call"
    /\ \E k \in {"k_good", "k_bad"} :
          /\ user_api_key = k
          /\ GOOGLE_API_KEY = k
    /\ gemini = "unset"
    /\ uploaded_zip \in Uploads
    /\ temp_dir = "none"
    /\ tree = <<>>
    /\ idx = 0
    /\ text = <<>>
    /\ extracted_data = <<>>
    /\ warnings = <<>>
    /\ results = <<>>
    /\ exc = NoExc
    /\ csv = NoCsv
    /\ ui = "none"
    /\ reads = <<>>
    /\ calls = <<>>
    /\ replies = <<>>

\* write_csv(process_zip(zip_file))
CallWriteCsv ==
    /\ pc = "returned"
    /\ csv' = write_csv(results)
    /\ pc' = "done"
    /\ UNCHANGED <<user_api_key, gemini, GOOGLE_API_KEY, uploaded_zip,
                   temp_dir, tree, idx, text, extracted_data, warnings,
                   results, exc, ui, reads, calls, replies>>

NextFn ==
    \/ EnterProcessZip \/ WriteArchive \/ WriteArchiveFails
    \/ Unpack \/ UnpackFails
    \/ SkipUnsupported \/ ReadRaises \/ SkipBlank \/ InvokeLLM
    \/ LLMReturns \/ LLMRaises \/ ReturnData
    \/ CallWriteCsv

SpecFn == InitFn /\ [][NextFn]_vars

(***************************************************************************)
(* What the files and replies of the catalogue are, stated independently   *)
(* of the code above: first character of the name identifies the file      *)
(***************************************************************************)
NonBlankStems == {"a", "c", "h"}       \* pdf/docx with non-blank text
BlankStems == {"b", "d"}               \* pdf/docx with blank text
CorruptStems == {"e", "g"}             \* pdf/docx the reader cannot open
UnsupportedStems == {"f", "p", "r"}    \* f.txt, "pdf", the archive r.zip

IsNonBlank(f) == f.file[1] \in NonBlankStems
IsBlank(f) == f.file[1] \in BlankStems
IsCorrupt(f) == f.file[1] \in CorruptStems
IsUnsupported(f) == f.file[1] \in UnsupportedStems

\* a reply that makes the LLM Extraction Call succeed under the current key
ReplyOk(r) ==
    /\ GOOGLE_API_KEY = "k_good"
    /\ r.net = "ok"
    /\ r.raw \in {RawA, RawB}

ReplyFails(r) == ~ReplyOk(r)

\* the eight fields of a reply
Dict(raw) ==
    [name |-> raw.name, email |-> raw.email, phone |-> raw.phone,
     skills |-> raw.skills, experience_summary |-> raw.experience_summary,
     education |-> raw.education, linkedin |-> raw.linkedin,
     github |-> raw.github]

\* the CSV row of a record, column by column
Columns(d) ==
    <<d.name, d.email, d.phone, d.skills, d.experience_summary, d.education,
      d.linkedin, d.github>>

Header ==
    <<"name", "email", "phone", "skills", "experience_summary", "education",
      "linkedin", "github">>

\* process_zip returned to its caller
Returned == pc \in {"returned", "done"}

\* process_zip was left by an exception
Aborted == pc = "raised" /\ exc.at # "startup"

\* candidates in traversal order, and what the run must have produced
Candidates == SelectSeq(tree, IsNonBlank)
FailedAt == {k \in DOMAIN replies : ReplyFails(replies[k])}
ExpectedRecords ==
    LET ok == SelectSeq(replies, ReplyOk)
    IN  [i \in 1..Len(ok) |-> Dict(ok[i].raw)]

(***************************************************************************)
(* Claims                                                                  *)
(***************************************************************************)

\* C1: when process_zip has returned and the LLM Extraction Call raised for
\* exactly one of the N candidates (pdf/docx files with non-blank text),
\* there are exactly N-1 records, those of the other candidates' replies in
\* traversal order, and exactly one warning, which names the failing file;
\* the failing call may be the first, a middle or the last one.  An LLM
\* failure never makes process_zip raise.
C1_OneFailureIsolated ==
    /\ (Returned /\ Cardinality(FailedAt) = 1) =>
          LET k == CHOOSE k \in FailedAt : TRUE
          IN  /\ Len(calls) = Len(Candidates)
              /\ Len(results) = Len(Candidates) - 1
              /\ results = ExpectedRecords
              /\ Len(warnings) = 1
              /\ warnings[1].file = Candidates[k].file
    /\ Aborted => exc.at \in {"write", "unpack", "read"}

\* C1 witness: three candidates, the call for the middle one raised
C1_Witness ==
    /\ pc = "returned"
    /\ Len(Candidates) = 3
    /\ FailedAt = {2}
    /\ Len(results) = 2
    /\ Len(warnings) = 1

\* C2: a pdf/docx file whose reader raises gets a warning, and process_zip
\* goes on and returns the records of the other files
C2_ExtractionFailureIsolated ==
    \A i \in DOMAIN tree :
        (IsCorrupt(tree[i]) /\ (Returned \/ Aborted) /\ exc.at \notin {"write", "unpack"}) =>
            /\ Returned
            /\ \E w \in DOMAIN warnings : warnings[w].file = tree[i].file
            /\ results = ExpectedRecords

\* C3: once a call of process_zip has ended, by return or by any exception,
\* the scratch directory it created is gone
C3_ScratchRemoved ==
    (Returned \/ Aborted) => temp_dir = "deleted"

\* C3 witness: process_zip was left by a reader's exception after an LLM
\* call had been made
C3_Witness ==
    /\ pc = "raised"
    /\ exc.at = "read"
    /\ Len(replies) >= 1
    /\ temp_dir = "deleted"

\* C4: an archive of N candidates whose calls all return a compliant
\* reply, plus unsupported files: process_zip returns exactly N records,
\* the i-th carrying exactly the eight fields of the i-th reply, and
\* write_csv of them has N+1 rows
C4_AllValid ==
    (/\ pc = "done"
     /\ \A i \in DOMAIN tree : IsNonBlank(tree[i]) \/ IsUnsupported(tree[i])
     /\ FailedAt = {}) =>
        /\ Len(results) = Len(Candidates)
        /\ \A i \in DOMAIN results :
              /\ DOMAIN results[i] = ResumeSchema
              /\ results[i] = Dict(replies[i].raw)
        /\ Len(csv) = Len(Candidates) + 1

\* C4 witness: three resumes, two different replies among them, four rows
C4_Witness ==
    /\ pc = "done"
    /\ Len(tree) = 4
    /\ Len(Candidates) = 3
    /\ FailedAt = {}
    /\ replies[1].raw = RawB
    /\ replies[2].raw = RawA
    /\ Len(csv) = 4

\* C5: an upload that is not a ZIP, or that cannot be written or unpacked,
\* makes process_zip raise before any reader or LLM call ran, with no
\* warning and nothing returned; an upload that is not a ZIP never gets as
\* far as the walk
C5_ArchiveFailureAborts ==
    /\ (Aborted /\ exc.at \in {"write", "unpack"}) =>
          /\ reads = <<>>
          /\ calls = <<>>
          /\ warnings = <<>>
          /\ results = <<>>
          /\ csv = NoCsv
          /\ ui = "none"
    /\ (uploaded_zip # NoUpload /\ ~uploaded_zip.valid) =>
          pc \in {"uploaded", "call", "materialize", "unpack", "raised"}

\* C5 witness: the upload was not a ZIP and process_zip raised BadZipFile
C5_Witness ==
    /\ pc = "raised"
    /\ exc = [type |-> "BadZipFile", at |-> "unpack"]
    /\ ~uploaded_zip.valid

\* C6: with no key in the sidebar and 'gemini' unset the script does not
\* fail at startup
C6_NoFailureAtStartup ==
    (pc # "start" /\ user_api_key = "" /\ gemini = "unset") =>
        /\ pc # "raised"
        /\ exc.at # "startup"

\* C7: a pdf/docx file with blank text gets no LLM call and no warning and
\* adds no record, while every LLM call that raised has its warning: the
\* warnings are exactly those of the failed calls, in order, and the
\* records exactly those of the calls that succeeded
C7_BlankSilentFailureWarns ==
    /\ \A c \in DOMAIN calls : ~(calls[c].path[2][1] \in BlankStems)
    /\ \A w \in DOMAIN warnings : ~(warnings[w].file[1] \in BlankStems)
    /\ Len(warnings) = Cardinality(FailedAt)
    /\ \A k \in FailedAt :
          \E w \in DOMAIN warnings : warnings[w].file = calls[k].path[2]
    /\ extracted_data = ExpectedRecords
    /\ Returned => Len(calls) = Len(Candidates)

\* C7 witness: a run over a blank file, a failed call and a successful one
C7_Witness ==
    /\ pc = "returned"
    /\ \E i \in DOMAIN tree : IsBlank(tree[i])
    /\ Len(reads) = 3
    /\ Len(calls) = 2
    /\ Len(warnings) = 1
    /\ Len(results) = 1

\* C8: when nothing in the walked tree is a .pdf or .docx (the stored
\* archive included), process_zip returns an empty list with no warning,
\* no reader call and no LLM call; files with other extensions never reach
\* a reader
C8_UnsupportedOnly ==
    /\ ((Returned \/ pc \in {"walk", "llm"})
          /\ \A i \in DOMAIN tree : IsUnsupported(tree[i])) =>
          /\ reads = <<>>
          /\ calls = <<>>
          /\ warnings = <<>>
          /\ extracted_data = <<>>
          /\ results = <<>>
          /\ pc # "llm"
    /\ \A r \in DOMAIN reads : ~(reads[r].path[2][1] \in UnsupportedStems)
    /\ (pc \in {"walk", "llm"} \/ Returned) =>
          \E i \in DOMAIN tree : tree[i] = ZipEntry(uploaded_zip.name)

\* C8 witness: f.txt, the file named "pdf" and the archive were walked
C8_Witness ==
    /\ pc = "returned"
    /\ Len(tree) = 3
    /\ \A i \in DOMAIN tree : IsUnsupported(tree[i])
    /\ results = <<>>
    /\ warnings = <<>>

\* C9: the file write_csv produced is the header of the eight field names
\* followed by one row per record, in the order process_zip appended them,
\* which is the traversal order of the candidates whose call succeeded;
\* an empty list gives the header alone
C9_CsvRows ==
    pc = "done" =>
        /\ Len(csv) = Len(results) + 1
        /\ csv[1] = Header
        /\ \A i \in DOMAIN results : csv[i + 1] = Columns(results[i])
        /\ results = ExpectedRecords
        /\ \A c \in DOMAIN calls : calls[c].path = Path(Candidates[c])
        /\ (results = <<>>) => (csv = <<Header>>)

\* C9 witness: two rows from two different replies, a failed file between
C9_Witness ==
    /\ pc = "done"
    /\ Len(Candidates) = 3
    /\ FailedAt = {2}
    /\ replies[1].raw = RawA
    /\ replies[3].raw = RawB
    /\ csv = <<Header, Columns(RawA), Columns(RawB)>>

\* C10: no file gets a second LLM call, a call is pending only while the
\* loop is at its file, every finished call left exactly one complete
\* record or exactly one warning, and a file without a call left neither
C10_OnceSequentialAtomic ==
    /\ \A i, j \in DOMAIN calls : i # j => calls[i].path # calls[j].path
    /\ Len(calls) - Len(replies) = (IF pc = "llm" THEN 1 ELSE 0)
    /\ pc = "llm" =>
          /\ calls[Len(calls)].path = Path(tree[idx])
          /\ reads[Len(reads)].path = Path(tree[idx])
    /\ \A i, j \in DOMAIN reads : i # j => reads[i].path # reads[j].path
    /\ Len(extracted_data) = Len(replies) - Cardinality(FailedAt)
    /\ Len(warnings) = Cardinality(FailedAt)
    /\ \A i \in DOMAIN extracted_data : DOMAIN extracted_data[i] = ResumeSchema
    /\ \A k \in DOMAIN replies :
          ReplyOk(replies[k]) =>
              ~\E w \in DOMAIN warnings : warnings[w].file = calls[k].path[2]

\* C10 witness: a finished run with one record, one warning and one file
\* left out
C10_Witness ==
    /\ pc = "done"
    /\ Len(calls) = 2
    /\ Len(results) = 1
    /\ Len(warnings) = 1
    /\ \E i \in DOMAIN tree : IsBlank(tree[i])

====
